---- MODULE Spec2Model ----
(***************************************************************************)
(* ConfigManager (src/core/config/ConfigManager.ts): a multi-profile API   *)
(* configuration document kept as one JSON blob in context.secrets, every  *)
(* public operation running inside the promise chain of lock().            *)
(*                                                                         *)
(* JavaScript values are represented as follows.                           *)
(*   - an object used as a map (apiConfigs, modeApiConfigs) is a sequence  *)
(*     of entries in insertion order, which is the order Object.entries,   *)
(*     Object.values and JSON.stringify enumerate string keys in;          *)
(*   - property lookup obj[name] and `name in obj` also see the properties *)
(*     inherited from Object.prototype (ObjectPrototypeKeys);              *)
(*   - a string that may be undefined is "" when undefined (both falsy);   *)
(*   - a number that may be undefined or null is a record [k, v].          *)
(***************************************************************************)
EXTENDS Integers, Sequences, FiniteSets, TLC

\* Number of public operations callers issue after the constructor's initConfig.
MaxCalls == 3

\* ------------------------------------------------------------------------
\* Values

Undefined == [k |-> "undefined", v |-> 0]
\* null, the value RateLimitControl emits for "unset".
Null == [k |-> "null", v |-> 0]
\* A boolean setting value.
Bool(b) == [k |-> "boolean", v |-> IF b THEN 1 ELSE 0]
\* context.globalState.get rejecting (or context.globalState missing).
Throws == [k |-> "throws", v |-> 0]
Num(n) == [k |-> "number", v |-> n]

\* Property names every plain object (object literal, JSON.parse result)
\* inherits from Object.prototype; one representative is enough.
ObjectPrototypeKeys == {"constructor"}

\* The value obj["constructor"] of an object without such an own property:
\* the function Object, which has neither id nor rateLimitSeconds.
InheritedValue == [id |-> "", rateLimitSeconds |-> Undefined, apiProvider |-> ""]

\* Own-property index of key in an object (0: no own property).
OwnIndex(obj, key) ==
    IF \E i \in 1..Len(obj) : obj[i].key = key
    THEN CHOOSE i \in 1..Len(obj) : obj[i].key = key
    ELSE 0

HasOwn(obj, key) == OwnIndex(obj, key) # 0

\* `key in obj`
In(key, obj) == HasOwn(obj, key) \/ key \in ObjectPrototypeKeys

\* Object.keys(obj)
Keys(obj) == [i \in 1..Len(obj) |-> obj[i].key]

\* obj[key] = val
SetProp(obj, key, val) ==
    IF HasOwn(obj, key)
    THEN [obj EXCEPT ![OwnIndex(obj, key)] = [key |-> key, val |-> val]]
    ELSE Append(obj, [key |-> key, val |-> val])

\* delete obj[key]
DeleteProp(obj, key) ==
    IF HasOwn(obj, key)
    THEN [i \in 1..(Len(obj) - 1) |->
            IF i < OwnIndex(obj, key) THEN obj[i] ELSE obj[i + 1]]
    ELSE obj

\* !obj[key], for an object whose own values are objects
Truthy(obj, key) == In(key, obj)

\* obj[key], for a key with Truthy(obj, key)
GetProp(obj, key) ==
    IF HasOwn(obj, key) THEN obj[OwnIndex(obj, key)].val ELSE InheritedValue

\* generateId(): the n-th identifier drawn
generateId(n) == "g" \o ToString(n)

\* ------------------------------------------------------------------------
\* The document (ApiConfigData)

NoMigrations == [present |-> FALSE, rateLimitMigrated |-> FALSE]
Migrated == [present |-> TRUE, rateLimitMigrated |-> TRUE]
NoModes == [present |-> FALSE, map |-> <<>>]

defaultConfigInitNoId ==
    [currentApiConfigName |-> "default",
     apiConfigs |-> << [key |-> "default",
                        val |-> [id |-> "",
                                 rateLimitSeconds |-> Num(0),
                                 apiProvider |-> ""]] >>,
     modeApiConfigs |-> NoModes,
     migrations |-> Migrated]

defaultConfigInitUnmigrated ==
    [currentApiConfigName |-> "default",
     apiConfigs |-> << [key |-> "default",
                        val |-> [id |-> generateId(1),
                                 rateLimitSeconds |-> Num(0),
                                 apiProvider |-> ""]] >>,
     modeApiConfigs |-> NoModes,
     migrations |-> NoMigrations]

\* this.defaultConfig as the field initializer builds it; the constructor
\* draws the first identifier for it.
defaultConfigInit ==
    [currentApiConfigName |-> "default",
     apiConfigs |-> << [key |-> "default",
                        val |-> [id |-> generateId(1),
                                 rateLimitSeconds |-> Num(0),
                                 apiProvider |-> ""]] >>,
     modeApiConfigs |-> NoModes,
     migrations |-> Migrated]

\* this.defaultConfig of a ConfigManager constructed when n identifiers
\* have been drawn before: the field initializer draws the next one.
NewDefaultConfig(n) ==
    [defaultConfigInit EXCEPT !.apiConfigs[1].val.id = generateId(n + 1)]

\* Default rate limit used when the global state has none.
DefaultRateLimit == 5

\* ------------------------------------------------------------------------
\* The callbacks passed to lock(), from the point where readConfig() has
\* returned `config` up to the call of writeConfig() or the return/throw.
\* Each yields
\*    doc   the in-memory object `config` as the callback leaves it,
\*    store whether writeConfig(doc) is called,
\*    err   the message thrown before any write (<<>>: none),
\*    ret   the value returned on success,
\*    ids   how many identifiers generateId() has handed out.

EmptyConfiguration == [id |-> "", rateLimitSeconds |-> Undefined, apiProvider |-> ""]

NoRet == [list |-> <<>>, cfg |-> EmptyConfiguration, flag |-> FALSE, id |-> ""]

Outcome(doc, store, err, ret, ids) ==
    [doc |-> doc, store |-> store, err |-> err, ret |-> ret, ids |-> ids]

NotFoundMessage(name) == "Config '" \o name \o "' not found"
LastProfileMessage == "Cannot delete the last remaining configuration."

\* Number of entries before position i whose profile has no id.
MissingBefore(obj, i) == Cardinality({j \in 1..(i - 1) : obj[j].val.id = ""})

AssignIdsAll(obj, n) ==
    [i \in 1..Len(obj) |-> [obj[i] EXCEPT !.val.id = generateId(n + i)]]

\* initConfig, lines 69-75: every profile without an id gets a generated one.
AssignIds(obj, n) ==
    [i \in 1..Len(obj) |->
        IF obj[i].val.id = ""
        THEN [obj[i] EXCEPT !.val.id = generateId(n + MissingBefore(obj, i) + 1)]
        ELSE obj[i]]

\* context.globalState.get("rateLimitSeconds") inside try/catch: a throw
\* leaves the local undefined.
GlobalGet(g) == IF g.k = "throws" THEN Undefined ELSE g

migrateRateLimitDefaultOnly(obj, g) ==
    [i \in 1..Len(obj) |->
        IF obj[i].val.rateLimitSeconds = Undefined
        THEN [obj[i] EXCEPT !.val.rateLimitSeconds = Num(DefaultRateLimit)]
        ELSE obj[i]]

migrateRateLimitOverwrites(obj, g) ==
    LET rate == IF GlobalGet(g) = Undefined THEN Num(DefaultRateLimit) ELSE GlobalGet(g)
    IN  [i \in 1..Len(obj) |-> [obj[i] EXCEPT !.val.rateLimitSeconds = rate]]

\* migrateRateLimit: the global value, or 5, for every profile whose
\* rateLimitSeconds === undefined.
migrateRateLimit(obj, g) ==
    LET rate == IF GlobalGet(g) = Undefined THEN Num(DefaultRateLimit) ELSE GlobalGet(g)
    IN  [i \in 1..Len(obj) |->
            IF obj[i].val.rateLimitSeconds = Undefined
            THEN [obj[i] EXCEPT !.val.rateLimitSeconds = rate]
            ELSE obj[i]]

initConfigBodyRemigrates(doc, n, g) ==
    LET missing == Cardinality({i \in 1..Len(doc.apiConfigs) : doc.apiConfigs[i].val.id = ""})
        withIds == AssignIds(doc.apiConfigs, n)
        doc2 == [doc EXCEPT !.apiConfigs = migrateRateLimit(withIds, g),
                            !.migrations = Migrated]
    IN  Outcome(doc2, TRUE, <<>>, NoRet, missing)

initConfigBodyAlwaysWrites(doc, n, g) ==
    LET missing == Cardinality({i \in 1..Len(doc.apiConfigs) : doc.apiConfigs[i].val.id = ""})
        withIds == AssignIds(doc.apiConfigs, n)
        migrate == ~doc.migrations.rateLimitMigrated
        configs == IF migrate THEN migrateRateLimit(withIds, g) ELSE withIds
        doc2 == [doc EXCEPT !.apiConfigs = configs,
                            !.migrations = IF migrate THEN Migrated
                                           ELSE [@ EXCEPT !.present = TRUE]]
    IN  Outcome(doc2, TRUE, <<>>, NoRet, missing)

\* initConfig. readConfig() never returns a falsy value (it returns
\* this.defaultConfig when there is no blob), so the branch of line 57 that
\* writes the default document is never taken.
initConfigBody(doc, n, g) ==
    LET missing == Cardinality({i \in 1..Len(doc.apiConfigs) : doc.apiConfigs[i].val.id = ""})
        withIds == AssignIds(doc.apiConfigs, n)
        migrate == ~doc.migrations.rateLimitMigrated
        configs == IF migrate THEN migrateRateLimit(withIds, g) ELSE withIds
        doc2 == [doc EXCEPT !.apiConfigs = configs,
                            !.migrations = IF migrate THEN Migrated
                                           ELSE [@ EXCEPT !.present = TRUE]]
    IN  Outcome(doc2, missing > 0 \/ migrate, <<>>, NoRet, missing)

listConfigBodyWrites(doc) ==
    Outcome(doc, TRUE, <<>>,
            [NoRet EXCEPT !.list =
                [i \in 1..Len(doc.apiConfigs) |->
                    [name |-> doc.apiConfigs[i].key,
                     id |-> doc.apiConfigs[i].val.id,
                     apiProvider |-> doc.apiConfigs[i].val.apiProvider]]],
            0)

\* listConfig
listConfigBody(doc) ==
    Outcome(doc, FALSE, <<>>,
            [NoRet EXCEPT !.list =
                [i \in 1..Len(doc.apiConfigs) |->
                    [name |-> doc.apiConfigs[i].key,
                     id |-> doc.apiConfigs[i].val.id,
                     apiProvider |-> doc.apiConfigs[i].val.apiProvider]]],
            0)

BackfillRateLimitGlobalFirst(obj, g) ==
    IF GlobalGet(g) # Undefined
    THEN GlobalGet(g)
    ELSE IF Len(obj) > 0 /\ obj[1].val.rateLimitSeconds # Undefined
    THEN obj[1].val.rateLimitSeconds
    ELSE Num(DefaultRateLimit)

\* saveConfig, lines 157-196: the rate limit given to a configuration saved
\* without one.
BackfillRateLimit(obj, g) ==
    IF Len(obj) > 0 /\ obj[1].val.rateLimitSeconds # Undefined
    THEN obj[1].val.rateLimitSeconds
    ELSE IF GlobalGet(g) = Undefined THEN Num(DefaultRateLimit) ELSE GlobalGet(g)

saveConfigBodyNewId(doc, name, config, n, g) ==
    LET rate == IF config.rateLimitSeconds = Undefined
                THEN BackfillRateLimit(doc.apiConfigs, g)
                ELSE config.rateLimitSeconds
        stored == [config EXCEPT !.rateLimitSeconds = rate,
                                 !.id = generateId(n + 1)]
    IN  Outcome([doc EXCEPT !.apiConfigs = SetProp(@, name, stored)],
                TRUE, <<>>, NoRet, 1)

saveConfigBodyNoBackfill(doc, name, config, n, g) ==
    LET exists == Truthy(doc.apiConfigs, name)
        existingId == IF exists THEN GetProp(doc.apiConfigs, name).id ELSE ""
        stored == [config EXCEPT !.id = IF existingId # "" THEN existingId
                                        ELSE generateId(n + 1)]
    IN  Outcome([doc EXCEPT !.apiConfigs = SetProp(@, name, stored)],
                TRUE, <<>>, NoRet, IF existingId # "" THEN 0 ELSE 1)

saveConfigBodyCallerId(doc, name, config, n, g) ==
    LET exists == Truthy(doc.apiConfigs, name)
        existingId == IF exists THEN GetProp(doc.apiConfigs, name).id ELSE ""
        rate == IF config.rateLimitSeconds = Undefined
                THEN BackfillRateLimit(doc.apiConfigs, g)
                ELSE config.rateLimitSeconds
        drawn == config.id = "" /\ existingId = ""
        stored == [config EXCEPT !.rateLimitSeconds = rate,
                                 !.id = IF config.id # "" THEN config.id
                                        ELSE IF existingId # "" THEN existingId
                                        ELSE generateId(n + 1)]
    IN  Outcome([doc EXCEPT !.apiConfigs = SetProp(@, name, stored)],
                TRUE, <<>>, NoRet, IF drawn THEN 1 ELSE 0)

saveConfigBody(doc, name, config, n, g) ==
    LET exists == Truthy(doc.apiConfigs, name)
        existingId == IF exists THEN GetProp(doc.apiConfigs, name).id ELSE ""
        rate == IF config.rateLimitSeconds = Undefined
                THEN BackfillRateLimit(doc.apiConfigs, g)
                ELSE config.rateLimitSeconds
        stored == [config EXCEPT !.rateLimitSeconds = rate,
                                 !.id = IF existingId # "" THEN existingId
                                        ELSE generateId(n + 1)]
    IN  Outcome([doc EXCEPT !.apiConfigs = SetProp(@, name, stored)],
                TRUE, <<>>, NoRet, IF existingId # "" THEN 0 ELSE 1)

\* loadConfig
loadConfigBodyKeepsCurrent(doc, name) ==
    IF ~Truthy(doc.apiConfigs, name)
    THEN Outcome(doc, FALSE, <<NotFoundMessage(name)>>, NoRet, 0)
    ELSE Outcome(doc, TRUE, <<>>,
                 [NoRet EXCEPT !.cfg = GetProp(doc.apiConfigs, name)], 0)

loadConfigBody(doc, name) ==
    IF ~Truthy(doc.apiConfigs, name)
    THEN Outcome(doc, FALSE, <<NotFoundMessage(name)>>, NoRet, 0)
    ELSE Outcome([doc EXCEPT !.currentApiConfigName = name], TRUE, <<>>,
                 [NoRet EXCEPT !.cfg = GetProp(doc.apiConfigs, name)], 0)

\* deleteConfig, line 244: the check that refuses to delete the last profile.
IsLastRemainingNever(obj) == FALSE
IsLastRemainingOffByOne(obj) == Len(Keys(obj)) = 0
IsLastRemaining(obj) == Len(Keys(obj)) = 1

\* deleteConfig
deleteConfigBodyMovesCurrent(doc, name) ==
    IF ~Truthy(doc.apiConfigs, name)
    THEN Outcome(doc, FALSE, <<NotFoundMessage(name)>>, NoRet, 0)
    ELSE IF IsLastRemaining(doc.apiConfigs)
    THEN Outcome(doc, FALSE, <<LastProfileMessage>>, NoRet, 0)
    ELSE Outcome([doc EXCEPT !.apiConfigs = DeleteProp(@, name),
                             !.currentApiConfigName =
                                 IF @ = name
                                 THEN Keys(DeleteProp(doc.apiConfigs, name))[1]
                                 ELSE @],
                 TRUE, <<>>, NoRet, 0)

deleteConfigBody(doc, name) ==
    IF ~Truthy(doc.apiConfigs, name)
    THEN Outcome(doc, FALSE, <<NotFoundMessage(name)>>, NoRet, 0)
    ELSE IF IsLastRemaining(doc.apiConfigs)
    THEN Outcome(doc, FALSE, <<LastProfileMessage>>, NoRet, 0)
    ELSE Outcome([doc EXCEPT !.apiConfigs = DeleteProp(@, name)], TRUE, <<>>, NoRet, 0)

\* setCurrentConfig
setCurrentConfigBody(doc, name) ==
    IF ~Truthy(doc.apiConfigs, name)
    THEN Outcome(doc, FALSE, <<NotFoundMessage(name)>>, NoRet, 0)
    ELSE Outcome([doc EXCEPT !.currentApiConfigName = name], TRUE, <<>>, NoRet, 0)

\* hasConfig
hasConfigBody(doc, name) ==
    Outcome(doc, FALSE, <<>>, [NoRet EXCEPT !.flag = In(name, doc.apiConfigs)], 0)

\* setModeConfig
setModeConfigBody(doc, mode, configId) ==
    Outcome([doc EXCEPT !.modeApiConfigs =
                [present |-> TRUE, map |-> SetProp(@.map, mode, configId)]],
            TRUE, <<>>, NoRet, 0)

\* getModeConfigId
getModeConfigIdBody(doc, mode) ==
    Outcome(doc, FALSE, <<>>,
            [NoRet EXCEPT !.id = IF HasOwn(doc.modeApiConfigs.map, mode)
                                 THEN GetProp(doc.modeApiConfigs.map, mode)
                                 ELSE ""],
            0)

\* The callback of call c after its adapter read returned doc.
Body(c, doc, n, g) ==
    CASE c.op = "initConfig" -> initConfigBody(doc, n, g)
      [] c.op = "listConfig" -> listConfigBody(doc)
      [] c.op = "saveConfig" -> saveConfigBody(doc, c.name, c.config, n, g)
      [] c.op = "loadConfig" -> loadConfigBody(doc, c.name)
      [] c.op = "deleteConfig" -> deleteConfigBody(doc, c.name)
      [] c.op = "setCurrentConfig" -> setCurrentConfigBody(doc, c.name)
      [] c.op = "hasConfig" -> hasConfigBody(doc, c.name)
      [] c.op = "setModeConfig" -> setModeConfigBody(doc, c.mode, c.id)
      [] c.op = "getModeConfigId" -> getModeConfigIdBody(doc, c.mode)

\* The message each public operation wraps a failure in ("" for
\* resetAllConfigs, which has no try/catch).
Wrapper(op) ==
    CASE op = "initConfig" -> "Failed to initialize config"
      [] op = "listConfig" -> "Failed to list configs"
      [] op = "saveConfig" -> "Failed to save config"
      [] op = "loadConfig" -> "Failed to load config"
      [] op = "deleteConfig" -> "Failed to delete config"
      [] op = "setCurrentConfig" -> "Failed to set current config"
      [] op = "hasConfig" -> "Failed to check config existence"
      [] op = "setModeConfig" -> "Failed to set mode config"
      [] op = "getModeConfigId" -> "Failed to get mode config"
      [] op = "resetAllConfigs" -> ""

Wrap(op, cause) == IF Wrapper(op) = "" THEN cause ELSE <<Wrapper(op)>> \o cause

ReadFailedMessage == "Failed to read config from secrets"
WriteFailedMessage == "Failed to write config to secrets"
StorageFailed == "Storage failed"
SyntaxError == "SyntaxError"

\* ------------------------------------------------------------------------
\* State

VARIABLES
    secrets,        \* context.secrets under getConfigKey(): [kind, doc]
    globalState,    \* context.globalState.get("rateLimitSeconds")
    defaultConfig,  \* this.defaultConfig, the object readConfig() returns when there is no blob
    nextId,         \* identifiers generateId() has handed out so far
    _lock,          \* this._lock: 0 is Promise.resolve(), i the promise next.catch(...) of call i
    calls,          \* the public operations called so far, in the order of their lock() calls
    chained,        \* chained[i]: the promise the callback of call i was chained on by .then()
    pc,             \* pc[i]: "queued", "awaiting" (between its adapter read and its write) or "done"
    config,         \* config[i]: what readConfig() gave call i: [st, alias, doc, err]
    result,         \* result[i]: what the caller of call i received: [st, err, ret]
    storeCalls,     \* storeCalls[i]: calls of secrets.store made by call i
    installed,      \* history: the content of secrets when the ConfigManager was constructed
    behind,         \* history: behind[i] is what the caller of call i recorded (see Waiting)
    state,          \* the webview's ExtensionState (ExtensionStateContextProvider)
    control         \* the RateLimitControl of the settings view: its props and hooks

\* The variables of the ConfigManager and of its adapters.
managerVars == <<secrets, globalState, defaultConfig, nextId, _lock, calls, chained, pc,
                 config, result, storeCalls, installed, behind>>

vars == <<managerVars, state, control>>

EmptyDoc ==
    [currentApiConfigName |-> "", apiConfigs |-> <<>>,
     modeApiConfigs |-> NoModes, migrations |-> NoMigrations]

NoSecret == [kind |-> "none", doc |-> EmptyDoc]
CorruptSecret == [kind |-> "corrupt", doc |-> EmptyDoc]

\* JSON.stringify(config, null, 2): a text that holds the document's own
\* properties in their order; undefined properties are left out, which the
\* representation of undefined as absent already does.
Stringify(doc) == [kind |-> "json", doc |-> doc]

\* JSON.parse(content): a fresh object, never this.defaultConfig.
Parse(content) == content.doc

NoConfig == [st |-> "none", alias |-> FALSE, doc |-> EmptyDoc, err |-> <<>>]
NoResult == [st |-> "none", err |-> <<>>, ret |-> NoRet]

\* readConfig(): fail is the adapter's get rejecting.
readConfig(content, fail) ==
    IF fail
    THEN [NoConfig EXCEPT !.st = "error", !.err = <<ReadFailedMessage, StorageFailed>>]
    ELSE IF content.kind = "none"
    THEN [NoConfig EXCEPT !.st = "ok", !.alias = TRUE]
    ELSE IF content.kind = "corrupt"
    THEN [NoConfig EXCEPT !.st = "error", !.err = <<ReadFailedMessage, SyntaxError>>]
    ELSE [NoConfig EXCEPT !.st = "ok", !.doc = Parse(content)]

\* ------------------------------------------------------------------------
\* lock(cb)

\* Line 46, next = this._lock.then(cb): the promise cb is chained on.
LockThenResolved(l) == 0
LockThen(l) == l

\* Line 47, this._lock = next.catch(() => {}): the new value of this._lock
\* after call i.
LockNextStale(i, l) == l
LockNext(i, l) == i

\* State of the promise `next` of call i.
NextState(i) ==
    IF pc[i] # "done" THEN "pending"
    ELSE IF result[i].st = "ok" THEN "fulfilled" ELSE "rejected"

\* State of next.catch(() => {}) given the state of next.
CaughtNot(s) == s
CaughtHang(s) == IF s = "fulfilled" THEN "fulfilled" ELSE "pending"
Caught(s) == IF s = "pending" THEN "pending" ELSE "fulfilled"

\* State of a value this._lock has held.
LockState(l) == IF l = 0 THEN "fulfilled" ELSE Caught(NextState(l))

\* What the callback of call i threw, inside lock(), before the public
\* operation wrapped it.
Reason(i) == IF Wrapper(calls[i].op) = "" THEN result[i].err ELSE Tail(result[i].err)

\* ------------------------------------------------------------------------
\* Actions

\* Earlier calls that are not done yet.
Waiting == Cardinality({i \in 1..Len(calls) : pc[i] # "done"})

\* A caller invokes the public operation c: lock() chains its callback.
\* b is recorded in the history variable: Waiting where a property speaks
\* of calls made while others are pending, 0 where none does.
Call(c, b) ==
    /\ Len(calls) < MaxCalls + 1
    /\ calls' = Append(calls, c)
    /\ chained' = Append(chained, LockThen(_lock))
    /\ _lock' = LockNext(Len(calls) + 1, _lock)
    /\ pc' = Append(pc, "queued")
    /\ config' = Append(config, NoConfig)
    /\ result' = Append(result, NoResult)
    /\ storeCalls' = Append(storeCalls, 0)
    /\ behind' = Append(behind, b)
    /\ UNCHANGED <<secrets, globalState, defaultConfig, nextId, installed, state, control>>

\* The promise call i is chained on has settled: its callback starts and
\* runs up to its first adapter call (secrets.get in readConfig, or
\* secrets.delete in resetAllConfigs), which the adapter serves atomically.
\* Chained on a rejected promise, the callback is skipped and the rejection
\* is passed on.
Start(i) ==
    /\ pc[i] = "queued"
    /\ LockState(chained[i]) # "pending"
    /\ IF LockState(chained[i]) = "rejected"
       THEN /\ pc' = [pc EXCEPT ![i] = "done"]
            /\ result' = [result EXCEPT ![i] =
                    [NoResult EXCEPT !.st = "error",
                                     !.err = Wrap(calls[i].op, Reason(chained[i]))]]
            /\ UNCHANGED <<secrets, config>>
       ELSE /\ pc' = [pc EXCEPT ![i] = "awaiting"]
            /\ UNCHANGED result
            /\ \E fail \in BOOLEAN :
                IF calls[i].op = "resetAllConfigs"
                THEN /\ secrets' = IF fail THEN secrets ELSE NoSecret
                     /\ config' = [config EXCEPT ![i] =
                            IF fail
                            THEN [NoConfig EXCEPT !.st = "error", !.err = <<StorageFailed>>]
                            ELSE [NoConfig EXCEPT !.st = "ok"]]
                ELSE /\ secrets' = secrets
                     /\ config' = [config EXCEPT ![i] = readConfig(secrets, fail)]
    /\ UNCHANGED <<globalState, defaultConfig, nextId, _lock, calls, chained, storeCalls,
                   installed, behind, state, control>>

\* The adapter call of call i has returned: the rest of the callback runs,
\* including its writeConfig (fail: secrets.store rejects), and the caller
\* receives the result.
Finish(i) ==
    /\ pc[i] = "awaiting"
    /\ pc' = [pc EXCEPT ![i] = "done"]
    /\ IF config[i].st = "error"
       THEN /\ result' = [result EXCEPT ![i] =
                    [NoResult EXCEPT !.st = "error",
                                     !.err = Wrap(calls[i].op, config[i].err)]]
            /\ UNCHANGED <<secrets, defaultConfig, nextId, storeCalls>>
       ELSE IF calls[i].op = "resetAllConfigs"
       THEN /\ result' = [result EXCEPT ![i] = [NoResult EXCEPT !.st = "ok"]]
            /\ UNCHANGED <<secrets, defaultConfig, nextId, storeCalls>>
       ELSE LET doc == IF config[i].alias THEN defaultConfig ELSE config[i].doc
                out == Body(calls[i], doc, nextId, globalState)
            IN  /\ nextId' = nextId + out.ids
                /\ defaultConfig' = IF config[i].alias THEN out.doc ELSE defaultConfig
                /\ storeCalls' = [storeCalls EXCEPT ![i] = IF out.store THEN 1 ELSE 0]
                /\ IF out.err # <<>>
                   THEN /\ result' = [result EXCEPT ![i] =
                                [NoResult EXCEPT !.st = "error",
                                                 !.err = Wrap(calls[i].op, out.err)]]
                        /\ secrets' = secrets
                   ELSE IF out.store
                   THEN \E fail \in BOOLEAN :
                        /\ secrets' = IF fail THEN secrets ELSE Stringify(out.doc)
                        /\ result' = [result EXCEPT ![i] =
                                IF fail
                                THEN [NoResult EXCEPT
                                        !.st = "error",
                                        !.err = Wrap(calls[i].op,
                                                     <<WriteFailedMessage, StorageFailed>>)]
                                ELSE [NoResult EXCEPT !.st = "ok", !.ret = out.ret]]
                   ELSE /\ result' = [result EXCEPT ![i] =
                                [NoResult EXCEPT !.st = "ok", !.ret = out.ret]]
                        /\ secrets' = secrets
    /\ UNCHANGED <<globalState, _lock, calls, chained, config, installed, behind, state, control>>

\* The extension host restarts while no call is pending: a new
\* ConfigManager is constructed over the same secrets and global state. Its
\* field initializers build a new defaultConfig with a newly drawn id and a
\* new _lock, and its constructor calls initConfig().
Restart ==
    /\ Len(calls) < MaxCalls + 1
    /\ \A i \in 1..Len(calls) : pc[i] = "done"
    /\ defaultConfig' = NewDefaultConfig(nextId)
    /\ nextId' = nextId + 1
    /\ calls' = Append(calls, [op |-> "initConfig", name |-> "",
                               config |-> EmptyConfiguration, mode |-> "", id |-> ""])
    /\ chained' = Append(chained, LockThen(0))
    /\ _lock' = LockNext(Len(calls) + 1, 0)
    /\ pc' = Append(pc, "queued")
    /\ config' = Append(config, NoConfig)
    /\ result' = Append(result, NoResult)
    /\ storeCalls' = Append(storeCalls, 0)
    /\ behind' = Append(behind, 0)
    /\ UNCHANGED <<secrets, globalState, installed, state, control>>

\* ------------------------------------------------------------------------
\* The webview (ExtensionStateContext, AdvancedSettings)

\* The settings that can be made profile-specific, and the keys of
\* ExtensionState they are read from.
Settings == {"rateLimitSeconds", "diffEnabled"}

\* useState<ExtensionState>({...}): the fields the settings use. An object
\* is a function whose domain is its own keys.
initialState ==
    [rateLimitSeconds |-> Num(0),
     diffEnabled |-> Bool(FALSE),
     profileSpecificSettings |-> <<>>]

\* obj[key], undefined when obj has no such key
Get(obj, key) == IF key \in DOMAIN obj THEN obj[key] ELSE Undefined

\* { ...obj, [key]: val }
Spread(obj, key, val) == (key :> val) @@ obj

\* a copy of obj after `delete copy[key]`
Without(obj, key) == [k \in (DOMAIN obj) \ {key} |-> obj[k]]

\* profileSpecificSettings[profileId] || {}
ProfileSettings(st, profileId) ==
    IF profileId \in DOMAIN st.profileSpecificSettings
    THEN st.profileSpecificSettings[profileId]
    ELSE <<>>

\* state.profileSpecificSettings?.[profileId]?.[setting]
ProfileSetting(st, profileId, setting) ==
    Get(ProfileSettings(st, profileId), setting)

\* setRateLimitSeconds, setDiffEnabled: the updater given to setState
setGlobalSetting(prevState, setting, value) ==
    [prevState EXCEPT ![setting] = value]

\* setProfileSpecificSetting: the updater given to setState
setProfileSpecificSetting(prevState, profileId, setting, value) ==
    [prevState EXCEPT !.profileSpecificSettings =
        Spread(@, profileId, Spread(ProfileSettings(prevState, profileId), setting, value))]

\* isProfileSpecific
isProfileSpecific(st, profileId, setting) ==
    ProfileSetting(st, profileId, setting) # Undefined

toggleProfileSpecificSeedsZero(prevState, profileId, setting) ==
    IF ProfileSetting(prevState, profileId, setting) # Undefined
    THEN [prevState EXCEPT !.profileSpecificSettings =
            Spread(@, profileId, Without(ProfileSettings(prevState, profileId), setting))]
    ELSE [prevState EXCEPT !.profileSpecificSettings =
            Spread(@, profileId,
                   Spread(ProfileSettings(prevState, profileId), setting, Num(0)))]

\* toggleProfileSpecific: the updater given to setState
toggleProfileSpecific(prevState, profileId, setting) ==
    IF ProfileSetting(prevState, profileId, setting) # Undefined
    THEN [prevState EXCEPT !.profileSpecificSettings =
            Spread(@, profileId, Without(ProfileSettings(prevState, profileId), setting))]
    ELSE [prevState EXCEPT !.profileSpecificSettings =
            Spread(@, profileId,
                   Spread(ProfileSettings(prevState, profileId), setting, prevState[setting]))]

CoalesceFalsy(a, b) ==
    IF a \in {Undefined, Null, Num(0), Bool(FALSE)} THEN b ELSE a

\* a ?? b
Coalesce(a, b) == IF a \in {Undefined, Null} THEN b ELSE a

\* AdvancedSettings: the value shown for a setting of the current profile.
EffectiveValue(st, profileId, setting) ==
    IF isProfileSpecific(st, profileId, setting)
    THEN Coalesce(ProfileSetting(st, profileId, setting), st[setting])
    ELSE st[setting]

\* mergeExtensionState: the fields of newState replace those of prevState,
\* and profileSpecificSettings is merged one level deep, by profile id.
mergeExtensionState(prevState, newState) ==
    [key \in DOMAIN prevState |->
        IF key = "profileSpecificSettings"
        THEN IF key \in DOMAIN newState
             THEN newState[key] @@ prevState[key]
             ELSE prevState[key]
        ELSE IF key \in DOMAIN newState THEN newState[key] ELSE prevState[key]]

\* The webview's handlers. The ConfigManager lives in the extension host
\* and is not touched by them.
SetGlobalSetting(setting, value) ==
    /\ state' = setGlobalSetting(state, setting, value)
    /\ UNCHANGED <<managerVars, control>>

SetProfileSpecificSetting(profileId, setting, value) ==
    /\ state' = setProfileSpecificSetting(state, profileId, setting, value)
    /\ UNCHANGED <<managerVars, control>>

ToggleProfileSpecific(profileId, setting) ==
    /\ state' = toggleProfileSpecific(state, profileId, setting)
    /\ UNCHANGED <<managerVars, control>>

\* handleMessage, case "state"
HandleStateMessage(newState) ==
    /\ state' = mergeExtensionState(state, newState)
    /\ UNCHANGED <<managerVars, control>>

\* ------------------------------------------------------------------------
\* RateLimitControl

\* onChange has not been called.
NotEmitted == [k |-> "none", v |-> 0]

\* The settings view has not rendered the control.
Unmounted ==
    [mounted |-> FALSE, value |-> Undefined, isCustomRateLimit |-> FALSE,
     inputValue |-> Undefined, effect |-> FALSE, debounce |-> FALSE,
     emitted |-> NotEmitted]

\* Line 47: the slider is rendered only under isCustomRateLimit.
SliderShown(c) == c.mounted /\ c.isCustomRateLimit

\* Line 60: value={inputValue ?? 0}
SliderValue(c) == Coalesce(c.inputValue, Num(0))

\* First render with the prop value: the useState initializers run, the
\* effect on [value] is scheduled and the debounce timer is started.
Mount(value) ==
    /\ ~control.mounted
    /\ control' = [mounted |-> TRUE, value |-> value,
                   isCustomRateLimit |-> (value # Undefined),
                   inputValue |-> value, effect |-> TRUE, debounce |-> TRUE,
                   emitted |-> NotEmitted]
    /\ UNCHANGED <<managerVars, state>>

\* The effect on [value] runs after the render that changed value.
SyncEffect ==
    /\ control.mounted
    /\ control.effect
    /\ control' = [control EXCEPT
            !.isCustomRateLimit = control.value \notin {Undefined, Null},
            !.inputValue = control.value,
            !.effect = FALSE,
            !.debounce = @ \/ control.inputValue # control.value]
    /\ UNCHANGED <<managerVars, state>>

\* The parent renders the control with another value, for instance after
\* the profile was switched (line 17). The onChange it passes may be a new
\* function, which restarts the debounce timer (line 16).
Rerender(value) ==
    /\ control.mounted
    /\ value # control.value
    /\ \E renewed \in BOOLEAN :
          control' = [control EXCEPT !.value = value, !.effect = TRUE,
                                     !.debounce = @ \/ renewed]
    /\ UNCHANGED <<managerVars, state>>

\* The checkbox is clicked (lines 29-39).
CheckboxChange(isChecked) ==
    /\ control.mounted
    /\ ~control.effect
    /\ isChecked = ~control.isCustomRateLimit
    /\ LET input == IF ~isChecked THEN Null ELSE Coalesce(control.value, Num(0))
       IN  control' = [control EXCEPT
                !.isCustomRateLimit = isChecked,
                !.inputValue = input,
                !.debounce = @ \/ control.inputValue # input]
    /\ UNCHANGED <<managerVars, state>>

\* The slider is moved (line 62); there is a slider only when it is shown.
SliderChange(value) ==
    /\ ~control.effect
    /\ SliderShown(control)
    /\ control' = [control EXCEPT
            !.inputValue = value,
            !.debounce = @ \/ control.inputValue # value]
    /\ UNCHANGED <<managerVars, state>>

\* The debounce timer fires (line 16): onChange(inputValue).
Debounced ==
    /\ control.mounted
    /\ ~control.effect
    /\ control.debounce
    /\ control' = [control EXCEPT !.emitted = control.inputValue, !.debounce = FALSE]
    /\ UNCHANGED <<managerVars, state>>

\* ------------------------------------------------------------------------
\* Inputs

Operation(op, name, cfg, mode, id) ==
    [op |-> op, name |-> name, config |-> cfg, mode |-> mode, id |-> id]

initConfig == Operation("initConfig", "", EmptyConfiguration, "", "")
listConfig == Operation("listConfig", "", EmptyConfiguration, "", "")
saveConfig(name, cfg) == Operation("saveConfig", name, cfg, "", "")
loadConfig(name) == Operation("loadConfig", name, EmptyConfiguration, "", "")
deleteConfig(name) == Operation("deleteConfig", name, EmptyConfiguration, "", "")
setCurrentConfig(name) == Operation("setCurrentConfig", name, EmptyConfiguration, "", "")
hasConfig(name) == Operation("hasConfig", name, EmptyConfiguration, "", "")
setModeConfig(mode, id) == Operation("setModeConfig", "", EmptyConfiguration, mode, id)
getModeConfigId(mode) == Operation("getModeConfigId", "", EmptyConfiguration, mode, "")
resetAllConfigs == Operation("resetAllConfigs", "", EmptyConfiguration, "", "")

Profile(id, rate, provider) ==
    [id |-> id, rateLimitSeconds |-> rate, apiProvider |-> provider]

Entry(key, val) == [key |-> key, val |-> val]

\* Documents an earlier session may have persisted.
\* One migrated profile.
DocOne ==
    [currentApiConfigName |-> "default",
     apiConfigs |-> << Entry("default", Profile("p1", Num(0), "")) >>,
     modeApiConfigs |-> NoModes,
     migrations |-> Migrated]

\* Two migrated profiles and a mode binding.
DocTwo ==
    [currentApiConfigName |-> "default",
     apiConfigs |-> << Entry("default", Profile("p1", Num(0), "")),
                       Entry("a", Profile("p2", Num(3), "anthropic")) >>,
     modeApiConfigs |-> [present |-> TRUE, map |-> << Entry("code", "p2") >>],
     migrations |-> Migrated]

\* A document written before ids and the rate limit migration existed.
DocLegacy ==
    [currentApiConfigName |-> "a",
     apiConfigs |-> << Entry("default", Profile("", Undefined, "")),
                       Entry("a", Profile("p2", Undefined, "anthropic")) >>,
     modeApiConfigs |-> NoModes,
     migrations |-> NoMigrations]

\* new ConfigManager(context): the field initializers run (defaultConfig
\* draws one id, _lock is Promise.resolve()) and the constructor calls
\* initConfig(), whose callback is chained on _lock.
InitWith(blobs, globals) ==
    /\ secrets \in blobs
    /\ installed = secrets
    /\ globalState \in globals
    /\ defaultConfig = defaultConfigInit
    /\ nextId = 1
    /\ _lock = LockNext(1, 0)
    /\ calls = << initConfig >>
    /\ chained = << LockThen(0) >>
    /\ pc = << "queued" >>
    /\ config = << NoConfig >>
    /\ result = << NoResult >>
    /\ storeCalls = << 0 >>
    /\ behind = << 0 >>
    /\ state = initialState
    /\ control = Unmounted

\* Every public operation, once: on the profile "a", which DocOne lacks
\* until it is saved, and deleteConfig on "default", which is refused while
\* it is the only profile.
GateOperations ==
    {initConfig, listConfig, resetAllConfigs,
     saveConfig("a", Profile("", Undefined, "")), loadConfig("a"),
     deleteConfig("default"), setCurrentConfig("a"),
     hasConfig("a"), setModeConfig("code", "p1"), getModeConfigId("code")}

InitGate == InitWith({CorruptSecret, Stringify(DocOne)}, {Undefined})

NextGate ==
    \/ \E c \in GateOperations : Call(c, 0)
    \/ \E i \in 1..Len(calls) : Start(i)
    \/ \E i \in 1..Len(calls) : Finish(i)

SpecGate == InitGate /\ [][NextGate]_vars

\* The operations of the profile store, on an existing name, a missing
\* name and a name every object inherits a property for.
StoreOperations ==
    {listConfig, resetAllConfigs,
     saveConfig("a", Profile("", Undefined, "")),
     loadConfig("a"), loadConfig("constructor"),
     deleteConfig("default"), deleteConfig("a"),
     setCurrentConfig("a"), setCurrentConfig("constructor")}

InitStore == InitWith({NoSecret, Stringify(DocTwo)}, {Undefined})

NextStore ==
    \/ \E c \in StoreOperations : Call(c, 0)
    \/ \E i \in 1..Len(calls) : Start(i)
    \/ \E i \in 1..Len(calls) : Finish(i)

SpecStore == InitStore /\ [][NextStore]_vars

\* saveConfig, loadConfig and deleteConfig, called while earlier calls are
\* pending; the history records how many.
RaceOperations ==
    {saveConfig("a", Profile("", Undefined, "")), loadConfig("a"),
     deleteConfig("default")}

InitRace == InitWith({NoSecret, Stringify(DocTwo)}, {Undefined})

NextRace ==
    \/ \E c \in RaceOperations : Call(c, Waiting)
    \/ \E i \in 1..Len(calls) : Start(i)
    \/ \E i \in 1..Len(calls) : Finish(i)

SpecRace == InitRace /\ [][NextRace]_vars

\* Operations that succeed and operations that fail, under the scheduling
\* the runtime guarantees: a callback whose promise has settled is run
\* (the microtask queue is drained), and, as the property about termination
\* assumes, every adapter call returns.
LiveOperations ==
    {saveConfig("a", Profile("", Undefined, "")), deleteConfig("default"),
     listConfig, resetAllConfigs}

InitLive == InitWith({CorruptSecret, Stringify(DocOne)}, {Undefined})

NextLive ==
    \/ \E c \in LiveOperations : Call(c, 0)
    \/ \E i \in 1..Len(calls) : Start(i)
    \/ \E i \in 1..Len(calls) : Finish(i)

SpecLive ==
    /\ InitLive
    /\ [][NextLive]_vars
    /\ WF_vars(\E i \in 1..Len(calls) : Start(i))
    /\ WF_vars(\E i \in 1..Len(calls) : Finish(i))

\* A document written before the rate limit migration in which one
\* profile already has a rate limit.
DocMixed ==
    [currentApiConfigName |-> "default",
     apiConfigs |-> << Entry("default", Profile("p1", Undefined, "")),
                       Entry("a", Profile("p2", Num(3), "anthropic")) >>,
     modeApiConfigs |-> NoModes,
     migrations |-> NoMigrations]

\* Starts on documents of older versions, with and without a legacy global
\* rate limit; initConfig is also called again by callers.
MigrateOperations ==
    {initConfig, listConfig, loadConfig("a"),
     saveConfig("b", Profile("", Undefined, ""))}

InitMigrate ==
    \/ InitWith({NoSecret}, {Num(10)})
    \/ InitWith({Stringify(DocLegacy)}, {Num(10), Throws})
    \/ InitWith({Stringify(DocMixed)}, {Undefined, Num(10)})

NextMigrate ==
    \/ \E c \in MigrateOperations : Call(c, 0)
    \/ \E i \in 1..Len(calls) : Start(i)
    \/ \E i \in 1..Len(calls) : Finish(i)

SpecMigrate == InitMigrate /\ [][NextMigrate]_vars

\* Sessions that end and start again over the same secrets.
RestartOperations ==
    {listConfig, saveConfig("a", Profile("", Undefined, "")),
     saveConfig("default", Profile("", Num(7), "anthropic"))}

InitRestart == InitWith({NoSecret, Stringify(DocTwo)}, {Undefined})

NextRestart ==
    \/ \E c \in RestartOperations : Call(c, 0)
    \/ \E i \in 1..Len(calls) : Start(i)
    \/ \E i \in 1..Len(calls) : Finish(i)
    \/ Restart

SpecRestart == InitRestart /\ [][NextRestart]_vars

\* Mode bindings are set and read while the profile one of them points to
\* is deleted.
ModeOperations ==
    {setModeConfig("code", "p1"), setModeConfig("ask", "zz"),
     getModeConfigId("code"), getModeConfigId("ask"), deleteConfig("a")}

InitModes == InitWith({NoSecret, Stringify(DocTwo)}, {Undefined})

NextModes ==
    \/ \E c \in ModeOperations : Call(c, 0)
    \/ \E i \in 1..Len(calls) : Start(i)
    \/ \E i \in 1..Len(calls) : Finish(i)

SpecModes == InitModes /\ [][NextModes]_vars

\* One mutating operation of each kind, on a store with one or two profiles.
FrameOperations ==
    {saveConfig("a", Profile("", Num(7), "anthropic")), deleteConfig("default"),
     setCurrentConfig("a"), loadConfig("a"), setModeConfig("ask", "p1")}

InitFrame == InitWith({NoSecret, Stringify(DocTwo)}, {Undefined})

NextFrame ==
    \/ \E c \in FrameOperations : Call(c, 0)
    \/ \E i \in 1..Len(calls) : Start(i)
    \/ \E i \in 1..Len(calls) : Finish(i)

SpecFrame == InitFrame /\ [][NextFrame]_vars


\* Sessions over a document that is not migrated yet: the migration write of
\* a start may fail and is then tried again by the next start.
RetryOperations ==
    {saveConfig("b", Profile("", Undefined, "")),
     saveConfig("default", Profile("", Num(7), "")), loadConfig("a"),
     deleteConfig("default"), setCurrentConfig("a"), setModeConfig("code", "p2")}

InitRetry == InitWith({NoSecret, Stringify(DocLegacy)}, {Num(10)})

NextRetry ==
    \/ \E c \in RetryOperations : Call(c, 0)
    \/ \E i \in 1..Len(calls) : Start(i)
    \/ \E i \in 1..Len(calls) : Finish(i)
    \/ Restart

SpecRetry == InitRetry /\ [][NextRetry]_vars


\* Profiles are saved with the rate limit cleared in the settings view
\* (null), without a rate limit, and with settings that carry an id.
ClearedOperations ==
    {saveConfig("default", Profile("", Null, "")),
     saveConfig("b", Profile("", Undefined, "")),
     saveConfig("a", Profile("zz", Num(7), "anthropic")), listConfig}

InitCleared == InitWith({NoSecret, Stringify(DocTwo)}, {Undefined, Num(10)})

NextCleared ==
    \/ \E c \in ClearedOperations : Call(c, 0)
    \/ \E i \in 1..Len(calls) : Start(i)
    \/ \E i \in 1..Len(calls) : Finish(i)

SpecCleared == InitCleared /\ [][NextCleared]_vars


\* The rate limit control of the settings view, with the values its parent
\* passes and the positions its slider is moved to.
ControlValues == {Undefined, Null, Num(0), Num(7)}

SliderValues == {Num(0), Num(7), Num(20)}

InitControl == InitWith({NoSecret}, {Undefined})

NextControl ==
    \/ \E value \in ControlValues : Mount(value)
    \/ SyncEffect
    \/ \E value \in ControlValues : Rerender(value)
    \/ \E isChecked \in BOOLEAN : CheckboxChange(isChecked)
    \/ \E value \in SliderValues : SliderChange(value)
    \/ Debounced

SpecControl == InitControl /\ [][NextControl]_vars


\* The webview: two profiles, the values a setting may take, and the
\* states the extension may push.
ProfileIds == {"p1", "p2"}

SettingValues == {Undefined, Null, Num(0), Num(7)}

PushedStates ==
    {[rateLimitSeconds |-> Num(7), diffEnabled |-> Bool(TRUE)],
     [rateLimitSeconds |-> Num(0), diffEnabled |-> Bool(FALSE),
      profileSpecificSettings |-> <<>>],
     [rateLimitSeconds |-> Num(0), diffEnabled |-> Bool(FALSE),
      profileSpecificSettings |-> ("p1" :> ("diffEnabled" :> Bool(TRUE)))]}

InitWebview == InitWith({NoSecret}, {Undefined})

NextWebview ==
    \/ \E setting \in Settings, value \in SettingValues :
            SetGlobalSetting(setting, value)
    \/ \E profileId \in ProfileIds, setting \in Settings, value \in SettingValues :
            SetProfileSpecificSetting(profileId, setting, value)
    \/ \E profileId \in ProfileIds, setting \in Settings :
            ToggleProfileSpecific(profileId, setting)
    \/ \E newState \in PushedStates : HandleStateMessage(newState)

SpecWebview == InitWebview /\ [][NextWebview]_vars

\* ------------------------------------------------------------------------
\* The gate

\* Call i is between its first adapter call and its last.
Inside(i) == pc[i] = "awaiting"

\* C1: at most one operation is inside the gate at a time. Every adapter
\* get and delete is made by Start(i), which puts call i inside, and every
\* adapter store by Finish(i), which call i makes from inside; so no
\* adapter call of one operation falls between the read and the write of
\* another exactly when no two calls are inside together.
MutualExclusion ==
    \A i, j \in 1..Len(calls) : (Inside(i) /\ Inside(j)) => i = j

\* A saveConfig is between its read and its write while a resetAllConfigs
\* and one more operation, both called meanwhile, wait.
MutualExclusionWitness ==
    \E i, j, k \in 1..Len(calls) :
        /\ i < j /\ j < k
        /\ Inside(i) /\ calls[i].op = "saveConfig" /\ config[i].st = "ok"
        /\ pc[j] = "queued" /\ calls[j].op = "resetAllConfigs"
        /\ pc[k] = "queued"

\* The adapter call the callback of call i started with was rejected.
FirstCallFailed(i) ==
    /\ config[i].st = "error"
    /\ config[i].err[Len(config[i].err)] = StorageFailed

\* The secrets.store of call i was rejected.
StoreFailed(i) == result[i].st = "error" /\ storeCalls[i] = 1

\* One public operation c run alone, from its adapter read to its adapter
\* write, on the store state st = [secrets, defaultConfig, nextId].
RunAlone(st, c, getFails, storeFails) ==
    IF c.op = "resetAllConfigs"
    THEN [st EXCEPT !.secrets = IF getFails THEN @ ELSE NoSecret]
    ELSE LET read == readConfig(st.secrets, getFails)
             doc == IF read.alias THEN st.defaultConfig ELSE read.doc
             out == Body(c, doc, st.nextId, globalState)
         IN  IF read.st = "error" THEN st
             ELSE [secrets |-> IF out.err = <<>> /\ out.store /\ ~storeFails
                               THEN Stringify(out.doc) ELSE st.secrets,
                   defaultConfig |-> IF read.alias THEN out.doc ELSE st.defaultConfig,
                   nextId |-> st.nextId + out.ids]

\* The first k calls run one after another in the order of their lock()
\* calls, the adapter failing where it failed in this behaviour.
RECURSIVE Sequential(_)
Sequential(k) ==
    IF k = 0
    THEN [secrets |-> installed, defaultConfig |-> defaultConfigInit, nextId |-> 1]
    ELSE RunAlone(Sequential(k - 1), calls[k], FirstCallFailed(k), StoreFailed(k))

AllDone == \A i \in 1..Len(calls) : pc[i] = "done"

\* C2: no lost updates: once all calls are done, the persisted document is
\* the one obtained by running the same operations one after another in
\* the order in which they were admitted to the gate.
NoLostUpdate ==
    AllDone => secrets = Sequential(Len(calls)).secrets

\* Three operations that were each called while all the calls before them
\* were still pending have all written, and a profile saved by the first
\* of them is in the final document although the later ones wrote after it.
NoLostUpdateWitness ==
    /\ AllDone
    /\ Len(calls) = 4
    /\ \A i \in 2..4 : behind[i] = i - 1 /\ result[i].st = "ok" /\ storeCalls[i] = 1
    /\ calls[2].op = "saveConfig" /\ calls[2].name = "a"
    /\ ~HasOwn(installed.doc.apiConfigs, "a")
    /\ calls[3].op = "loadConfig"
    /\ calls[4].op = "deleteConfig"
    /\ HasOwn(secrets.doc.apiConfigs, "a")

\* C3: the gate is FIFO: a call made after another does not start before
\* the earlier one is done.
FifoOrder ==
    \A i, j \in 1..Len(calls) : (i < j /\ pc[j] # "queued") => pc[i] = "done"

\* Of four calls the first two have run, the third is inside and the
\* fourth, made before the third finished, still waits.
FifoOrderWitness ==
    /\ Len(calls) = 4
    /\ \A i \in 1..2 : pc[i] = "done" /\ config[i].st # "none"
    /\ Inside(3)
    /\ pc[4] = "queued"

\* C4: a failure does not poison the gate: every call that is done has run
\* its own callback, whatever happened to the calls before it (so the error
\* it reports, if any, is its own).
NoPoison ==
    \A i \in 1..Len(calls) : pc[i] = "done" => config[i].st # "none"

\* A call chained on a call whose adapter write failed has run and
\* succeeded, and so has the call chained on it in turn.
NoPoisonWitness ==
    \E i \in 1..Len(calls) :
        /\ i + 2 <= Len(calls)
        /\ chained[i + 1] = i /\ chained[i + 2] = i + 1
        /\ pc[i] = "done" /\ result[i].st = "error" /\ storeCalls[i] = 1
        /\ pc[i + 1] = "done" /\ result[i + 1].st = "ok"
        /\ pc[i + 2] = "done" /\ result[i + 2].st = "ok"

\* C5: no starvation: every call is eventually executed and its caller
\* eventually receives a result or an error.
EveryCallCompletes ==
    \A k \in 1..(MaxCalls + 1) :
        (Len(calls) >= k) ~>
            (Len(calls) >= k /\ pc[k] = "done" /\ config[k].st # "none"
                /\ result[k].st \in {"ok", "error"})

\* The last of four calls, made while the third was still queued, has
\* completed after calls before it failed.
EveryCallCompletesWitness ==
    /\ Len(calls) = 4
    /\ AllDone
    /\ result[2].st = "error" /\ result[3].st = "error"
    /\ config[4].st = "ok" /\ result[4].st = "ok"

\* ------------------------------------------------------------------------
\* The profile store

\* The document the next readConfig() returns (there is none while the
\* blob cannot be parsed).
Observed == IF secrets.kind = "json" THEN Parse(secrets) ELSE defaultConfig

\* The object `config` the callback of call i works on.
DocOf(i) == IF config[i].alias THEN defaultConfig ELSE config[i].doc

\* Call i takes the step from its adapter read to its result.
Finishing(i) == pc[i] = "awaiting" /\ pc'[i] = "done"

\* C6: the persisted document's currentApiConfigName is a key of its
\* apiConfigs (every installed document of SpecStore satisfies this).
CurrentProfileExists ==
    secrets.kind = "json" =>
        HasOwn(secrets.doc.apiConfigs, secrets.doc.currentApiConfigName)

\* C7: the document the next operation observes has at least one profile.
AtLeastOneProfile ==
    secrets.kind # "corrupt" => Len(Observed.apiConfigs) >= 1

\* A deleteConfig has removed a profile and written, a later deleteConfig
\* was refused, and one profile is left.
AtLeastOneProfileWitness ==
    /\ Len(Observed.apiConfigs) = 1
    /\ \E i, j \in 1..Len(calls) :
        /\ i < j
        /\ calls[i].op = "deleteConfig" /\ result[i].st = "ok" /\ storeCalls[i] = 1
        /\ calls[j].op = "deleteConfig" /\ pc[j] = "done"
        /\ result[j].err = Wrap("deleteConfig", <<LastProfileMessage>>)

\* C8: deleteConfig(name) on a document whose only profile is name fails
\* with the last-remaining-configuration error, calls no secrets.store and
\* leaves the persisted blob and the in-memory default document unchanged.
DeleteLastRefused ==
    [][\A i \in 1..Len(calls) :
        (/\ Finishing(i)
         /\ calls[i].op = "deleteConfig"
         /\ config[i].st = "ok"
         /\ Keys(DocOf(i).apiConfigs) = <<calls[i].name>>)
        => /\ result'[i].st = "error"
           /\ result'[i].err = Wrap("deleteConfig", <<LastProfileMessage>>)
           /\ storeCalls'[i] = 0
           /\ secrets' = secrets
           /\ defaultConfig' = defaultConfig]_vars

\* A deleteConfig of the only profile of the document it read is done and
\* was refused; the profile is still there.
DeleteLastRefusedWitness ==
    \E i \in 1..Len(calls) :
        /\ calls[i].op = "deleteConfig" /\ pc[i] = "done"
        /\ config[i].st = "ok" /\ ~config[i].alias
        /\ Keys(config[i].doc.apiConfigs) = <<calls[i].name>>
        /\ result[i].err = Wrap("deleteConfig", <<LastProfileMessage>>)
        /\ Keys(Observed.apiConfigs) = <<calls[i].name>>

\* C9: loadConfig, deleteConfig and setCurrentConfig with a name that is
\* not a key of apiConfigs fail with the not-found error, call no
\* secrets.store and leave the document unchanged.
MissingNameRefused ==
    [][\A i \in 1..Len(calls) :
        (/\ Finishing(i)
         /\ calls[i].op \in {"loadConfig", "deleteConfig", "setCurrentConfig"}
         /\ config[i].st = "ok"
         /\ ~HasOwn(DocOf(i).apiConfigs, calls[i].name))
        => /\ result'[i].st = "error"
           /\ result'[i].err = Wrap(calls[i].op, <<NotFoundMessage(calls[i].name)>>)
           /\ storeCalls'[i] = 0
           /\ secrets' = secrets
           /\ defaultConfig' = defaultConfig]_vars

\* C10: a listConfig that follows a successful resetAllConfigs returns
\* exactly one profile, named "default".
ResetRecreatesDefault ==
    \A i \in 1..Len(calls) :
        (/\ i < Len(calls)
         /\ calls[i].op = "resetAllConfigs" /\ result[i].st = "ok"
         /\ calls[i + 1].op = "listConfig" /\ result[i + 1].st = "ok")
        => /\ Len(result[i + 1].ret.list) = 1
           /\ result[i + 1].ret.list[1].name = "default"

\* ------------------------------------------------------------------------
\* Identity of profiles

\* C11: on a store that held no blob at construction, a listConfig that is
\* the first operation after construction returns exactly one profile, named
\* "default", with the non-empty id the constructor generated.
FreshStoreListsDefault ==
    (/\ installed = NoSecret
     /\ Len(calls) >= 2
     /\ calls[2] = listConfig
     /\ result[2].st = "ok")
    => /\ Len(result[2].ret.list) = 1
       /\ result[2].ret.list[1].name = "default"
       /\ result[2].ret.list[1].id # ""
       /\ result[2].ret.list[1].id = generateId(1)

FreshStoreListsDefaultWitness ==
    /\ installed = NoSecret
    /\ Len(calls) >= 2
    /\ calls[2] = listConfig
    /\ result[1].st = "ok"
    /\ storeCalls[1] = 0
    /\ result[2].st = "ok"
    /\ Len(result[2].ret.list) = 1

\* The id listConfig call i reported for the profile called name, "" when it
\* reported no such profile.
ListedId(i, name) ==
    LET list == result[i].ret.list
        at == {k \in 1..Len(list) : list[k].name = name}
    IN  IF at = {} THEN "" ELSE list[CHOOSE k \in at : TRUE].id

ListedNames(i) == {result[i].ret.list[k].name : k \in 1..Len(result[i].ret.list)}

Listed(i) == calls[i].op = "listConfig" /\ result[i].st = "ok"

\* C12: while no profile is deleted and the store is not reset, two
\* listConfig calls report the same id for every profile name both of them
\* list, whatever operations and restarts lie between them, also on a store
\* to which nothing has been written.
IdNeverRegenerated ==
    (\A k \in 1..Len(calls) : calls[k].op \notin {"deleteConfig", "resetAllConfigs"})
    => \A i, j \in 1..Len(calls) :
        (i < j /\ Listed(i) /\ Listed(j))
        => \A name \in ListedNames(i) \cap ListedNames(j) :
              ListedId(i, name) = ListedId(j, name)

\* The ids of the profiles of a map.
IdsOf(obj) == {obj[k].val.id : k \in 1..Len(obj)}

MigrationsApplied(doc) ==
    /\ "" \notin IdsOf(doc.apiConfigs)
    /\ doc.migrations.rateLimitMigrated

\* C14: every operation that succeeds returns only profiles with an id and
\* writes only documents in which every profile has an id and the rate
\* limit migration is marked applied, whatever the persisted document was
\* and however earlier adapter calls ended.
EveryOperationMigrates ==
    [][\A i \in 1..Len(calls) :
        (Finishing(i) /\ result'[i].st = "ok")
        => /\ \A k \in 1..Len(result'[i].ret.list) : result'[i].ret.list[k].id # ""
           /\ storeCalls'[i] = 1 => MigrationsApplied(Parse(secrets'))]_vars

\* C15: an initConfig that runs after an initConfig that succeeded, with only
\* listConfig calls between them, succeeds without an adapter write and
\* leaves the document as the first one left it.
InitConfigIdempotent ==
    [][\A j \in 1..Len(calls) :
        (/\ Finishing(j)
         /\ calls[j].op = "initConfig"
         /\ config[j].st = "ok"
         /\ \E i \in 1..(j - 1) :
               /\ calls[i].op = "initConfig" /\ result[i].st = "ok"
               /\ \A k \in (i + 1)..(j - 1) : calls[k].op = "listConfig")
        => /\ result'[j].st = "ok"
           /\ storeCalls'[j] = 0
           /\ secrets' = secrets
           /\ defaultConfig' = defaultConfig]_vars

\* The first run migrated a document of an older version and wrote it.
InitConfigIdempotentWitness ==
    /\ installed = Stringify(DocLegacy)
    /\ Len(calls) >= 2
    /\ result[1].st = "ok" /\ storeCalls[1] = 1
    /\ calls[2].op = "initConfig"
    /\ result[2].st = "ok" /\ storeCalls[2] = 0
    /\ secrets # installed
    /\ MigrationsApplied(Parse(secrets))

\* Call i is an initConfig that runs the rate limit migration on the
\* persisted document it read and succeeds.
MigratesRateLimit(i) ==
    /\ Finishing(i)
    /\ calls[i].op = "initConfig"
    /\ config[i].st = "ok"
    /\ ~config[i].alias
    /\ ~config[i].doc.migrations.rateLimitMigrated
    /\ result'[i].st = "ok"

\* The legacy global rate limit when the global state has one, else 5.
LegacyRateLimit ==
    IF globalState.k = "number" THEN globalState ELSE Num(DefaultRateLimit)

\* C16: when initConfig runs the rate limit migration on a persisted
\* document not marked as migrated, every profile without rateLimitSeconds
\* gets the legacy global value if there is one, else 5, and the document
\* persisted afterwards has migrations.rateLimitMigrated set.
RateLimitMigrationFills ==
    [][\A i \in 1..Len(calls) :
        MigratesRateLimit(i)
        => LET before == config[i].doc.apiConfigs
               after == Parse(secrets').apiConfigs
           IN  /\ secrets'.kind = "json"
               /\ Parse(secrets').migrations.rateLimitMigrated
               /\ Keys(after) = Keys(before)
               /\ \A k \in 1..Len(before) :
                     before[k].val.rateLimitSeconds = Undefined
                     => after[k].val.rateLimitSeconds = LegacyRateLimit]_vars

RateLimitMigrationFillsWitness ==
    /\ installed = Stringify(DocLegacy)
    /\ globalState = Num(10)
    /\ result[1].st = "ok"
    /\ secrets.kind = "json"
    /\ Parse(secrets).migrations.rateLimitMigrated
    /\ \A k \in 1..Len(Parse(secrets).apiConfigs) :
          Parse(secrets).apiConfigs[k].val.rateLimitSeconds = Num(10)

\* C17: the rate limit migration leaves the rateLimitSeconds of every
\* profile that already has one as it was.
RateLimitMigrationKeeps ==
    [][\A i \in 1..Len(calls) :
        MigratesRateLimit(i)
        => LET before == config[i].doc.apiConfigs
               after == Parse(secrets').apiConfigs
           IN  /\ Keys(after) = Keys(before)
               /\ \A k \in 1..Len(before) :
                     before[k].val.rateLimitSeconds # Undefined
                     => after[k].val.rateLimitSeconds = before[k].val.rateLimitSeconds]_vars

RateLimitMigrationKeepsWitness ==
    /\ installed = Stringify(DocMixed)
    /\ globalState = Num(10)
    /\ result[1].st = "ok"
    /\ secrets.kind = "json"
    /\ Parse(secrets).migrations.rateLimitMigrated
    /\ GetProp(Parse(secrets).apiConfigs, "a").rateLimitSeconds = Num(3)
    /\ GetProp(Parse(secrets).apiConfigs, "default").rateLimitSeconds = Num(10)

\* C18: initConfig does not start the rate limit migration while ids it
\* has assigned are not in the persisted blob: when its callback assigns ids
\* and then migrates the rate limit, the blob persisted at that moment (the
\* callback has written nothing yet) holds an id for every profile.
StepsWrittenThrough ==
    [][\A i \in 1..Len(calls) :
        (/\ Finishing(i)
         /\ calls[i].op = "initConfig"
         /\ config[i].st = "ok"
         /\ ~config[i].alias
         /\ "" \in IdsOf(config[i].doc.apiConfigs)
         /\ ~config[i].doc.migrations.rateLimitMigrated)
        => /\ secrets.kind = "json"
           /\ "" \notin IdsOf(Parse(secrets).apiConfigs)]_vars

\* C19: an initConfig whose rate limit migration fails (the read of the
\* legacy global value throws) ends with an error, and the document is not
\* persisted with migrations.rateLimitMigrated set.
MigrationFailureAborts ==
    [][\A i \in 1..Len(calls) :
        (/\ Finishing(i)
         /\ calls[i].op = "initConfig"
         /\ config[i].st = "ok"
         /\ ~config[i].alias
         /\ ~config[i].doc.migrations.rateLimitMigrated
         /\ globalState = Throws)
        => /\ result'[i].st = "error"
           /\ ~(secrets'.kind = "json" /\ Parse(secrets').migrations.rateLimitMigrated)]_vars

\* The rate limits the profiles of a map have.
RateLimitsOf(obj) ==
    {obj[k].val.rateLimitSeconds : k \in 1..Len(obj)} \ {Undefined}

\* C20: a saveConfig of a configuration without rateLimitSeconds stores it
\* with the rateLimitSeconds of a profile of the document that has one when
\* there is such a profile, else with the legacy global value when there is
\* one, else with 5.
BackfillPriority ==
    [][\A i \in 1..Len(calls) :
        (/\ Finishing(i)
         /\ calls[i].op = "saveConfig"
         /\ calls[i].config.rateLimitSeconds = Undefined
         /\ result'[i].st = "ok")
        => LET existing == RateLimitsOf(DocOf(i).apiConfigs)
               stored == GetProp(Parse(secrets').apiConfigs, calls[i].name).rateLimitSeconds
           IN  IF existing # {}
               THEN stored \in existing
               ELSE stored = LegacyRateLimit]_vars

\* ------------------------------------------------------------------------
\* Operations of the profile store

\* C21: a loadConfig of the name of a profile of the document it read either
\* fails at its write and leaves the blob alone, or returns that profile as
\* it is stored and leaves a persisted document whose currentApiConfigName
\* is that name.
LoadReturnsAndActivates ==
    [][\A i \in 1..Len(calls) :
        (/\ Finishing(i)
         /\ calls[i].op = "loadConfig"
         /\ config[i].st = "ok"
         /\ HasOwn(DocOf(i).apiConfigs, calls[i].name))
        => \/ /\ result'[i].st = "error"
              /\ result'[i].err = Wrap("loadConfig", <<WriteFailedMessage, StorageFailed>>)
              /\ secrets' = secrets
           \/ /\ result'[i].st = "ok"
              /\ result'[i].ret.cfg = GetProp(DocOf(i).apiConfigs, calls[i].name)
              /\ secrets'.kind = "json"
              /\ Parse(secrets').currentApiConfigName = calls[i].name
              /\ Parse(secrets').apiConfigs = DocOf(i).apiConfigs]_vars

LoadReturnsAndActivatesWitness ==
    /\ installed = Stringify(DocMixed)
    /\ Len(calls) = 2
    /\ calls[2] = loadConfig("a")
    /\ result[2].st = "ok"
    /\ result[2].ret.cfg.id = "p2"
    /\ result[2].ret.cfg.rateLimitSeconds = Num(3)
    /\ Parse(secrets).currentApiConfigName = "a"

\* The binding of a mode in a document, "" when it has none.
Binding(doc, mode) ==
    IF HasOwn(doc.modeApiConfigs.map, mode)
    THEN GetProp(doc.modeApiConfigs.map, mode)
    ELSE ""

\* The setModeConfig calls for a mode that succeeded before call j.
SetBefore(j, mode) ==
    {i \in 1..(j - 1) : /\ calls[i].op = "setModeConfig"
                        /\ calls[i].mode = mode
                        /\ result[i].st = "ok"}

\* The id most recently set for a mode before call j: that of the last
\* setModeConfig that succeeded, else the binding the store held at
\* construction, "" when there is none.
MostRecentlySet(j, mode) ==
    IF SetBefore(j, mode) # {}
    THEN calls[CHOOSE i \in SetBefore(j, mode) :
                 \A k \in SetBefore(j, mode) : k <= i].id
    ELSE IF installed.kind = "json" THEN Binding(Parse(installed), mode)
    ELSE ""

\* C22: a setModeConfig whose write succeeds binds the mode to the id given,
\* whether or not a profile has that id; a getModeConfigId returns the id
\* most recently set for its mode, nothing when none was set; and no other
\* operation, deleteConfig of the profile a binding points to included,
\* changes a binding of the persisted document.
ModeBindingsUnvalidated ==
    [][\A i \in 1..Len(calls) :
        (Finishing(i) /\ config[i].st = "ok")
        => /\ (calls[i].op = "setModeConfig" /\ result'[i].st = "ok")
                => /\ secrets'.kind = "json"
                   /\ Binding(Parse(secrets'), calls[i].mode) = calls[i].id
           /\ calls[i].op = "getModeConfigId"
                => /\ result'[i].st = "ok"
                   /\ result'[i].ret.id = MostRecentlySet(i, calls[i].mode)
           /\ (secrets.kind = "json" /\ secrets'.kind = "json")
                => \A mode \in {"code", "ask"} :
                     (calls[i].op = "setModeConfig" /\ calls[i].mode = mode)
                     \/ Binding(Parse(secrets'), mode) = Binding(Parse(secrets), mode)]_vars

\* C23: every failure a caller receives starts with the message of the
\* operation that failed and goes on with the cause.
FailuresWrapped ==
    \A i \in 1..Len(calls) :
        result[i].st = "error"
        => /\ Wrapper(calls[i].op) # ""
           /\ Len(result[i].err) >= 2
           /\ result[i].err[1] = Wrapper(calls[i].op)

ReadOnlyOperations == {"listConfig", "hasConfig", "getModeConfigId"}

MutatingOperations ==
    {"saveConfig", "loadConfig", "deleteConfig", "setCurrentConfig", "setModeConfig"}

\* C24: no step of listConfig, hasConfig or getModeConfigId calls
\* secrets.store or changes the blob, and a saveConfig, loadConfig,
\* deleteConfig, setCurrentConfig or setModeConfig that succeeds has called
\* secrets.store once, with the whole document it worked on.
WritesOnlyWhenMutating ==
    [][\A i \in 1..Len(calls) :
        /\ (calls[i].op \in ReadOnlyOperations /\ pc'[i] # pc[i])
             => /\ secrets' = secrets
                /\ storeCalls'[i] = 0
        /\ (calls[i].op \in MutatingOperations /\ Finishing(i) /\ result'[i].st = "ok")
             => /\ storeCalls'[i] = 1
                /\ secrets' = Stringify(Body(calls[i], DocOf(i), nextId, globalState).doc)]_vars

WritesOnlyWhenMutatingWitness ==
    \E i, j \in 1..Len(calls) :
        /\ calls[i].op = "saveConfig" /\ result[i].st = "ok" /\ storeCalls[i] = 1
        /\ i < j
        /\ calls[j].op = "listConfig" /\ result[j].st = "ok" /\ storeCalls[j] = 0
        /\ Len(result[j].ret.list) = 2

\* ------------------------------------------------------------------------
\* Writes of initConfig

\* C25: an initConfig that finds no persisted blob succeeds without calling
\* secrets.store.
NoBlobNoWrite ==
    [][\A i \in 1..Len(calls) :
        (/\ Finishing(i)
         /\ calls[i].op = "initConfig"
         /\ config[i].st = "ok"
         /\ config[i].alias)
        => /\ result'[i].st = "ok"
           /\ storeCalls'[i] = 0
           /\ secrets' = secrets]_vars

\* The constructor's initConfig and one more, with a saveConfig whose write
\* failed between them, all on a store without a blob.
NoBlobNoWriteWitness ==
    /\ installed = NoSecret
    /\ secrets = NoSecret
    /\ Len(calls) = 3
    /\ result[1].st = "ok" /\ storeCalls[1] = 0
    /\ calls[2].op = "saveConfig" /\ result[2].st = "error" /\ storeCalls[2] = 1
    /\ calls[3].op = "initConfig" /\ result[3].st = "ok" /\ storeCalls[3] = 0

\* Call i is an initConfig that read a persisted document in which every
\* profile has an id.
InitOnDocumentWithIds(i) ==
    /\ Finishing(i)
    /\ calls[i].op = "initConfig"
    /\ config[i].st = "ok"
    /\ ~config[i].alias
    /\ "" \notin IdsOf(config[i].doc.apiConfigs)

InitAssignsMissingIds ==
    [][\A i \in 1..Len(calls) :
        (/\ Finishing(i)
         /\ calls[i].op = "initConfig"
         /\ config[i].st = "ok"
         /\ ~config[i].alias
         /\ "" \in IdsOf(config[i].doc.apiConfigs))
        => LET before == config[i].doc.apiConfigs
               after == Parse(secrets').apiConfigs
           IN  /\ storeCalls'[i] = 1
               /\ result'[i].st = "ok"
                    => /\ secrets'.kind = "json"
                       /\ Keys(after) = Keys(before)
                       /\ "" \notin IdsOf(after)
                       /\ \A k \in 1..Len(before) :
                             IF before[k].val.id # ""
                             THEN after[k].val.id = before[k].val.id
                             ELSE after[k].val.id \notin IdsOf(before)]_vars

InitAssignsMissingIdsWitness ==
    /\ installed = Stringify(DocLegacy)
    /\ result[1].st = "ok"
    /\ storeCalls[1] = 1
    /\ secrets.kind = "json"
    /\ GetProp(Parse(secrets).apiConfigs, "default").id = generateId(2)
    /\ GetProp(Parse(secrets).apiConfigs, "a").id = "p2"

\* ------------------------------------------------------------------------
\* The legacy global state

\* Values context.globalState may hold for rateLimitSeconds.
LegacyValues == {Undefined, Throws, Num(0), Num(10)}

\* C28: whenever a callback works on a document marked as rate-limit
\* migrated, what it returns, writes and draws is the same for every value
\* of the legacy global rate limit, an absent one included.
LegacyStateNotConsulted ==
    \A i \in 1..Len(calls) :
        (/\ pc[i] = "awaiting"
         /\ config[i].st = "ok"
         /\ calls[i].op # "resetAllConfigs"
         /\ DocOf(i).migrations.rateLimitMigrated)
        => \A g \in LegacyValues :
              Body(calls[i], DocOf(i), nextId, g)
                = Body(calls[i], DocOf(i), nextId, globalState)

\* A profile saved without a rate limit, after the migration gave the legacy
\* value to the profiles that had none, takes the first profile's value.
LegacyStateNotConsultedWitness ==
    /\ installed = Stringify(DocMixed)
    /\ globalState = Num(10)
    /\ Len(calls) = 3
    /\ result[1].st = "ok" /\ storeCalls[1] = 1
    /\ calls[2] = loadConfig("a") /\ result[2].st = "ok"
    /\ calls[3].op = "saveConfig" /\ pc[3] = "awaiting" /\ config[3].st = "ok"
    /\ config[3].doc.migrations.rateLimitMigrated
    /\ \A g \in LegacyValues :
          GetProp(Body(calls[3], config[3].doc, nextId, g).doc.apiConfigs, "b").rateLimitSeconds
            = Num(10)

\* ------------------------------------------------------------------------
\* Profile-specific settings in the webview

\* C29: the value shown for a setting of a profile is the override recorded
\* for the pair when the pair is profile-specific and the recorded value is
\* neither null nor undefined, and the global value of the setting otherwise.
EffectiveValueResolves ==
    \A profileId \in ProfileIds, setting \in Settings :
        EffectiveValue(state, profileId, setting)
          = IF /\ isProfileSpecific(state, profileId, setting)
               /\ ProfileSetting(state, profileId, setting) \notin {Undefined, Null}
            THEN ProfileSetting(state, profileId, setting)
            ELSE state[setting]

\* An override of 0 is shown rather than the global 7, and a null override
\* of another profile gives way to the global value.
EffectiveValueResolvesWitness ==
    /\ state["rateLimitSeconds"] = Num(7)
    /\ ProfileSetting(state, "p1", "rateLimitSeconds") = Num(0)
    /\ EffectiveValue(state, "p1", "rateLimitSeconds") = Num(0)
    /\ ProfileSetting(state, "p2", "rateLimitSeconds") = Null
    /\ EffectiveValue(state, "p2", "rateLimitSeconds") = Num(7)

\* C30: toggling a pair that is not profile-specific records the global
\* value of the setting as its override, and the value shown right after is
\* that global value; toggling a pair that is profile-specific removes the
\* override, the value shown is the global value, and toggling it again
\* after the global value was set to g records g.
ToggleSeedsAndDiscards ==
    \A profileId \in ProfileIds, setting \in Settings :
        LET toggled == toggleProfileSpecific(state, profileId, setting)
        IN  IF ~isProfileSpecific(state, profileId, setting)
            THEN /\ ProfileSetting(toggled, profileId, setting) = state[setting]
                 /\ EffectiveValue(toggled, profileId, setting) = state[setting]
                 /\ toggled[setting] = state[setting]
            ELSE /\ ~isProfileSpecific(toggled, profileId, setting)
                 /\ setting \notin DOMAIN ProfileSettings(toggled, profileId)
                 /\ EffectiveValue(toggled, profileId, setting) = state[setting]
                 /\ \A g \in SettingValues :
                       LET again == toggleProfileSpecific(
                                        setGlobalSetting(toggled, setting, g),
                                        profileId, setting)
                       IN  /\ ProfileSetting(again, profileId, setting) = g
                           /\ EffectiveValue(again, profileId, setting) = g

\* One pair was toggled on at a global value of 7 while the same setting of
\* the other profile carries an override of its own.
ToggleSeedsAndDiscardsWitness ==
    /\ state["rateLimitSeconds"] = Num(7)
    /\ ProfileSetting(state, "p1", "rateLimitSeconds") = Num(7)
    /\ ProfileSetting(state, "p2", "rateLimitSeconds") = Num(0)
    /\ ~isProfileSpecific(state, "p1", "diffEnabled")
    /\ EffectiveValue(toggleProfileSpecific(state, "p1", "rateLimitSeconds"),
                      "p1", "rateLimitSeconds") = Num(7)

\* C31: a setProfileSpecificSetting on a pair that is not profile-specific
\* leaves the pair not profile-specific and the value shown for it the
\* global value.
RecordingDoesNotOverride ==
    [][\A profileId \in ProfileIds, setting \in Settings, value \in SettingValues :
        (/\ ~isProfileSpecific(state, profileId, setting)
         /\ state' = setProfileSpecificSetting(state, profileId, setting, value))
        => /\ ~isProfileSpecific(state', profileId, setting)
           /\ EffectiveValue(state', profileId, setting) = state[setting]]_vars

\* C32: after a toggleProfileSpecific a pair is profile-specific exactly
\* when it was not before, whatever the global value of the setting is.
ToggleInverts ==
    [][\A profileId \in ProfileIds, setting \in Settings :
        state' = toggleProfileSpecific(state, profileId, setting)
        => isProfileSpecific(state', profileId, setting)
             = ~isProfileSpecific(state, profileId, setting)]_vars


\* The own profile of a name in a document, or that it has none.
ProfileOf(doc, name) ==
    IF HasOwn(doc.apiConfigs, name)
    THEN [present |-> TRUE, cfg |-> GetProp(doc.apiConfigs, name)]
    ELSE [present |-> FALSE, cfg |-> EmptyConfiguration]

FrameNames == {"default", "a"}
FrameModes == {"code", "ask"}

FailedWriteChangesNothing ==
    [][\A i \in 1..Len(calls) :
        (/\ Finishing(i)
         /\ calls[i].op \in {"deleteConfig", "setCurrentConfig", "loadConfig",
                              "setModeConfig", "saveConfig"}
         /\ result'[i].st = "error"
         /\ storeCalls'[i] = 1)
        => /\ result'[i].err = Wrap(calls[i].op, <<WriteFailedMessage, StorageFailed>>)
           /\ Observed' = Observed]_vars

\* C35: in a persisted document whose migrations.rateLimitMigrated is set,
\* every profile has a rateLimitSeconds.
MigratedMeansRateLimits ==
    (secrets.kind = "json" /\ Parse(secrets).migrations.rateLimitMigrated)
    => \A k \in 1..Len(Parse(secrets).apiConfigs) :
          Parse(secrets).apiConfigs[k].val.rateLimitSeconds # Undefined

\* The migration write of the first start failed, a profile was saved into
\* the unmigrated document, and the next start migrated it.
MigratedMeansRateLimitsWitness ==
    /\ installed = Stringify(DocLegacy)
    /\ Len(calls) = 3
    /\ result[1].st = "error"
    /\ storeCalls[1] = 1
    /\ calls[2].op = "saveConfig"
    /\ result[2].st = "ok"
    /\ calls[3].op = "initConfig"
    /\ result[3].st = "ok"
    /\ Parse(secrets).migrations.rateLimitMigrated
    /\ Len(Parse(secrets).apiConfigs) = 3
    /\ \A k \in 1..3 : Parse(secrets).apiConfigs[k].val.rateLimitSeconds = Num(10)

\* C36: while no blob is persisted the default profile has rateLimitSeconds
\* 0, and a new profile saved without rateLimitSeconds receives 0.
NoBlobRateLimitZero ==
    [][\A i \in 1..Len(calls) :
        (/\ Finishing(i)
         /\ calls[i].op = "saveConfig"
         /\ config[i].st = "ok"
         /\ config[i].alias
         /\ calls[i].config.rateLimitSeconds = Undefined
         /\ ~HasOwn(DocOf(i).apiConfigs, calls[i].name))
        => /\ GetProp(DocOf(i).apiConfigs, "default").rateLimitSeconds = Num(0)
           /\ GetProp(defaultConfig'.apiConfigs, calls[i].name).rateLimitSeconds
                = Num(0)]_vars

\* C37: the rateLimitSeconds stored for a profile that was saved without
\* one is a number.
BackfillIsNumber ==
    [][\A i \in 1..Len(calls) :
        (/\ Finishing(i)
         /\ calls[i].op = "saveConfig"
         /\ calls[i].config.rateLimitSeconds = Undefined
         /\ result'[i].st = "ok")
        => GetProp(Parse(secrets').apiConfigs, calls[i].name).rateLimitSeconds.k
             = "number"]_vars

\* C38: a saveConfig whose settings carry an id stores the profile under
\* the id the profile already has, or, when there is no such id, under a
\* non-empty id that is neither the one carried nor one of the document.
CallerIdIgnored ==
    [][\A i \in 1..Len(calls) :
        (/\ Finishing(i)
         /\ calls[i].op = "saveConfig"
         /\ calls[i].config.id # ""
         /\ result'[i].st = "ok")
        => LET before == DocOf(i).apiConfigs
               stored == GetProp(Parse(secrets').apiConfigs, calls[i].name)
           IN  IF HasOwn(before, calls[i].name)
                  /\ GetProp(before, calls[i].name).id # ""
               THEN stored.id = GetProp(before, calls[i].name).id
               ELSE /\ stored.id # ""
                    /\ stored.id # calls[i].config.id
                    /\ stored.id \notin IdsOf(before)]_vars

\* An update or a creation with settings that carry the id "zz".
CallerIdIgnoredWitness ==
    /\ Len(calls) = 2
    /\ calls[2] = saveConfig("a", Profile("zz", Num(7), "anthropic"))
    /\ result[2].st = "ok"
    /\ LET stored == GetProp(Parse(secrets).apiConfigs, "a")
       IN  /\ stored.rateLimitSeconds = Num(7)
           /\ \/ installed = Stringify(DocTwo) /\ stored.id = "p2"
              \/ installed = NoSecret /\ stored.id = generateId(2)

\* A value is recorded for the pair in the profileSpecificSettings of st.
Recorded(st, profileId, setting) ==
    /\ "profileSpecificSettings" \in DOMAIN st
    /\ profileId \in DOMAIN st.profileSpecificSettings
    /\ setting \in DOMAIN st.profileSpecificSettings[profileId]

\* C39: after a state pushed by the extension is merged, every pair that was
\* profile-specific before, and for which the pushed state gives no value,
\* is still profile-specific with the same value.
MergeKeepsUnmentioned ==
    [][\A newState \in PushedStates, profileId \in ProfileIds, setting \in Settings :
        (/\ state' = mergeExtensionState(state, newState)
         /\ isProfileSpecific(state, profileId, setting)
         /\ ~Recorded(newState, profileId, setting))
        => /\ isProfileSpecific(state', profileId, setting)
           /\ ProfileSetting(state', profileId, setting)
                = ProfileSetting(state, profileId, setting)]_vars

\* C40: when the control has synchronized with a value of null or undefined
\* it shows the slider, and the slider reads 0.
NullValueShowsSliderAtZero ==
    [][(/\ control.effect
        /\ ~control'.effect
        /\ control'.value \in {Undefined, Null})
       => /\ SliderShown(control')
          /\ SliderValue(control') = Num(0)]_vars

====
